---- MODULE Spec2Model ----
(***************************************************************************)
(* A model of the byo-sh interactive shell.                                *)
(*                                                                         *)
(* Characters are short strings, and lines, tokens and file names         *)
(* are sequences of characters.  The shell of src/unnamed/part_005 (main,  *)
(* readInput, parseCMD, sanitizeInput and the CMD built-ins) is the state  *)
(* machine; the tokenizer of src/cmd/myshell/main.go (tokenize, lines 81   *)
(* to 151) is modelled beside sanitizeInput as a second scanner.           *)
(***************************************************************************)
EXTENDS Integers, Sequences, FiniteSets, TLC

(***************************************************************************)
(* Bounds of the model.                                                    *)
(***************************************************************************)
\* committed lines per run of the shell
MaxLines == 2
\* argument words after the command name in a line typed at the prompt
MaxArgs == 2
\* argument words of a line handed to parseCMD in SpecLine
MaxLineArgs == 4
\* characters of a raw line handed to the scanners in SpecTok
MaxLineLen == 4

(***************************************************************************)
(* Characters.                                                             *)
(***************************************************************************)
SQ == "'"
DQ == "\""
BS == "\\"
SP == " "
NL == "\n"
\* the backquote character (written out: the character itself upsets the lexer)
BQ == "<backquote>"
DOLLAR == "$"

\* unicode.IsSpace on the characters of the model
IsSpace(c) == c \in {SP, NL, "\t"}

(***************************************************************************)
(* Words and names.                                                        *)
(***************************************************************************)
echoW == <<"e", "c", "h", "o">>
exitW == <<"e", "x", "i", "t">>
typeW == <<"t", "y", "p", "e">>
pwdW == <<"p", "w", "d">>
cdW == <<"c", "d">>

\* a list of built-ins that lacks cd
builtinCMDsWithoutCd == <<exitW, echoW, typeW, pwdW>>

\* var builtinCMDs
builtinCMDs == <<exitW, echoW, typeW, pwdW, cdW>>

Range(s) == {s[i] : i \in 1..Len(s)}

\* the six redirection operators of parseCMD's switch
GT == <<">">>
GT1 == <<"1", ">">>
GT2 == <<"2", ">">>
GTGT == <<">", ">">>
GTGT1 == <<"1", ">", ">">>
GTGT2 == <<"2", ">", ">">>
TruncOps == {GT, GT1, GT2}
AppendOps == {GTGT, GTGT1, GTGT2}
StdoutOps == {GT, GT1, GTGT, GTGT1}
StderrOps == {GT2, GTGT2}
RedirOps == TruncOps \cup AppendOps

(***************************************************************************)
(* The environment: a file system with the root directory, one directory   *)
(* g in it, and the executables of the search path.                        *)
(***************************************************************************)
fW == <<"f">>
gW == <<"g">>
lsW == <<"l", "s">>
zzW == <<"z", "z">>
gtfW == <<">", "f">>
pwdxW == <<"p", "w", "d", "x">>
mkdirW == <<"m", "k", "d", "i", "r">>
mkfifoW == <<"m", "k", "f", "i", "f", "o">>
RootDir == <<"/">>
SubDir == <<"/", "g">>
HomeDir == RootDir

\* the directories of PATH in order, each with its files in the order of a
\* directory walk; x tells whether a file has an execute bit.  echo is a
\* program as well as a built-in, and ls is in all three directories, the
\* first of them without an execute bit.
PathDirs ==
    << [dir |-> "/usr/local/bin/",
        files |-> << [name |-> echoW, x |-> TRUE], [name |-> lsW, x |-> FALSE],
                     [name |-> mkdirW, x |-> TRUE], [name |-> mkfifoW, x |-> TRUE] >>],
       [dir |-> "/usr/bin/",
        files |-> << [name |-> lsW, x |-> TRUE], [name |-> pwdxW, x |-> TRUE] >>],
       [dir |-> "/bin/",
        files |-> << [name |-> echoW, x |-> TRUE], [name |-> lsW, x |-> TRUE] >>] >>

RECURSIVE NamesIn(_)
\* the names of a sequence of files
NamesIn(fs) == IF Len(fs) = 0 THEN <<>> ELSE <<fs[1].name>> \o NamesIn(Tail(fs))

RECURSIVE Walk(_)
\* the names of the executable files filepath.WalkDir meets under the
\* directories dirs, in the order of the walk
Walk(dirs) ==
    IF Len(dirs) = 0 THEN <<>>
    ELSE NamesIn(SelectSeq(dirs[1].files, LAMBDA f : f.x)) \o Walk(Tail(dirs))

PathWalk == Walk(PathDirs)
PathExecutables == Range(PathWalk)

\* os.OpenFile(name, O_WRONLY|O_CREATE|..., 0644) fails on a directory
OpenFails(dir, name) == dir = RootDir /\ name = gW

\* an os.Chdir that cannot fail: what is no directory is entered as named
ChdirWithoutError(from, dir) ==
    IF dir = RootDir THEN RootDir
    ELSE IF dir = SubDir THEN SubDir
    ELSE IF from = RootDir /\ dir = gW THEN SubDir
    ELSE dir

\* os.Chdir(dir): the directory entered, or <<>> when it cannot be entered
Chdir(from, dir) ==
    IF dir = RootDir THEN RootDir
    ELSE IF dir = SubDir THEN SubDir
    ELSE IF from = RootDir /\ dir = gW THEN SubDir
    ELSE <<>>

RECURSIVE LookPathInLastMatch(_, _)
\* a search of the path that goes on after a match and keeps the last one
LookPathInLastMatch(dirs, name) ==
    IF Len(dirs) = 0 THEN <<>>
    ELSE LET later == LookPathInLastMatch(Tail(dirs), name)
         IN  IF later # <<>> THEN later
             ELSE IF \E i \in 1..Len(dirs[1].files) :
                        dirs[1].files[i].name = name /\ dirs[1].files[i].x
                  THEN <<dirs[1].dir>> \o name
                  ELSE <<>>

RECURSIVE LookPathIn(_, _)
\* exec.LookPath over the directories dirs: the path of the file called name
\* in the first directory that has one with an execute bit, <<>> when
\* there is none (exec.ErrNotFound)
LookPathIn(dirs, name) ==
    IF Len(dirs) = 0 THEN <<>>
    ELSE IF \E i \in 1..Len(dirs[1].files) :
                dirs[1].files[i].name = name /\ dirs[1].files[i].x
         THEN <<dirs[1].dir>> \o name
         ELSE LookPathIn(Tail(dirs), name)

\* exec.LookPath: TRUE when name is an executable of the search path
LookPath(name) == LookPathIn(PathDirs, name) # <<>>

\* the path exec.LookPath reports for an executable of the search path
PathOf(name) == LookPathIn(PathDirs, name)

RECURSIVE JoinSp(_)
\* strings.Join(args, " ")
JoinSp(ws) ==
    IF Len(ws) = 0 THEN <<>>
    ELSE IF Len(ws) = 1 THEN ws[1]
    ELSE ws[1] \o <<SP>> \o JoinSp(Tail(ws))

(***************************************************************************)
(* sanitizeInput: the scanner parseCMD uses.  A scanner state is the       *)
(* function's locals; sanitizeStep is one pass of the loop body on s[i].   *)
(***************************************************************************)
sanitizeStart ==
    [sb |-> <<>>, args |-> <<>>, inSingleQuotes |-> FALSE,
     inDoubleQuotes |-> FALSE, escaped |-> FALSE]

\* sanitizeStep with the test for single quotes missing from the case of the
\* double quote: the character is written and never toggles
sanitizeStepNoToggle(st, s, i) ==
    LET c == s[i]
        write == [st EXCEPT !.sb = Append(st.sb, c)]
    IN  IF st.escaped THEN [write EXCEPT !.escaped = FALSE]
        ELSE IF c = SQ THEN
            IF st.inDoubleQuotes THEN write
            ELSE [st EXCEPT !.inSingleQuotes = ~st.inSingleQuotes]
        ELSE IF c = DQ THEN write
        ELSE IF c = BS THEN
            IF st.inSingleQuotes THEN write
            ELSE IF st.inDoubleQuotes THEN
                IF i >= Len(s) THEN write
                ELSE IF s[i + 1] \in {BS, DOLLAR, DQ}
                     THEN [st EXCEPT !.escaped = TRUE]
                     ELSE write
            ELSE [st EXCEPT !.escaped = TRUE]
        ELSE IF IsSpace(c) THEN
            IF st.inSingleQuotes \/ st.inDoubleQuotes THEN write
            ELSE IF Len(st.sb) > 0
                 THEN [st EXCEPT !.args = Append(st.args, st.sb), !.sb = <<>>]
                 ELSE st
        ELSE write

\* sanitizeStep with the default case of the backslash's switch writing the
\* backslash instead of setting escaped: outside quotes the backslash is kept
sanitizeStepKeepsBackslash(st, s, i) ==
    LET c == s[i]
        write == [st EXCEPT !.sb = Append(st.sb, c)]
    IN  IF st.escaped THEN [write EXCEPT !.escaped = FALSE]
        ELSE IF c = SQ THEN
            IF st.inDoubleQuotes THEN write
            ELSE [st EXCEPT !.inSingleQuotes = ~st.inSingleQuotes]
        ELSE IF c = DQ THEN
            IF st.inSingleQuotes THEN write
            ELSE [st EXCEPT !.inDoubleQuotes = ~st.inDoubleQuotes]
        ELSE IF c = BS THEN
            IF st.inSingleQuotes THEN write
            ELSE IF st.inDoubleQuotes THEN
                IF i >= Len(s) THEN write
                ELSE IF s[i + 1] \in {BS, DOLLAR, DQ}
                     THEN [st EXCEPT !.escaped = TRUE]
                     ELSE write
            ELSE write
        ELSE IF IsSpace(c) THEN
            IF st.inSingleQuotes \/ st.inDoubleQuotes THEN write
            ELSE IF Len(st.sb) > 0
                 THEN [st EXCEPT !.args = Append(st.args, st.sb), !.sb = <<>>]
                 ELSE st
        ELSE write

sanitizeStep(st, s, i) ==
    LET c == s[i]
        write == [st EXCEPT !.sb = Append(st.sb, c)]
    IN  IF st.escaped THEN [write EXCEPT !.escaped = FALSE]
        ELSE IF c = SQ THEN
            IF st.inDoubleQuotes THEN write
            ELSE [st EXCEPT !.inSingleQuotes = ~st.inSingleQuotes]
        ELSE IF c = DQ THEN
            IF st.inSingleQuotes THEN write
            ELSE [st EXCEPT !.inDoubleQuotes = ~st.inDoubleQuotes]
        ELSE IF c = BS THEN
            IF st.inSingleQuotes THEN write
            ELSE IF st.inDoubleQuotes THEN
                IF i >= Len(s) THEN write
                ELSE IF s[i + 1] \in {BS, DOLLAR, DQ}
                     THEN [st EXCEPT !.escaped = TRUE]
                     ELSE write
            ELSE [st EXCEPT !.escaped = TRUE]
        ELSE IF IsSpace(c) THEN
            IF st.inSingleQuotes \/ st.inDoubleQuotes THEN write
            ELSE IF Len(st.sb) > 0
                 THEN [st EXCEPT !.args = Append(st.args, st.sb), !.sb = <<>>]
                 ELSE st
        ELSE write

\* sanitizeEnd without the test of sb.Len(): the builder is always appended
sanitizeEndAlways(st) == Append(st.args, st.sb)

\* sanitizeEnd without the flush after the loop: the last token is lost
sanitizeEndNoFlush(st) == st.args

\* sanitizeEnd that gives up a token whose quote was never closed
sanitizeEndDropsUnterminated(st) ==
    IF st.inSingleQuotes \/ st.inDoubleQuotes THEN st.args
    ELSE IF Len(st.sb) > 0 THEN Append(st.args, st.sb) ELSE st.args

\* the flush after the loop
sanitizeEnd(st) == IF Len(st.sb) > 0 THEN Append(st.args, st.sb) ELSE st.args

RECURSIVE sanitizeScan(_, _, _, _)
\* the loop over s[i..n]
sanitizeScan(st, s, i, n) ==
    IF i > n THEN st ELSE sanitizeScan(sanitizeStep(st, s, i), s, i + 1, n)

sanitizeInput(s) == sanitizeEnd(sanitizeScan(sanitizeStart, s, 1, Len(s)))

(***************************************************************************)
(* tokenize: the scanner of the earlier main.  The state record has the    *)
(* same fields as sanitizeInput's: sb is currentToken, args is tokens and  *)
(* escaped is escapeNext.                                                  *)
(***************************************************************************)
\* tokenizeStep with the test for single quotes after the two tests for the
\* backslash: a backslash escapes inside single quotes too
tokenizeStepBackslashFirst(st, s, i) ==
    LET c == s[i]
        write == [st EXCEPT !.sb = Append(st.sb, c)]
    IN  IF st.escaped THEN
            IF st.inDoubleQuotes THEN
                IF c \in {DOLLAR, BQ, DQ, BS, NL}
                THEN [write EXCEPT !.escaped = FALSE]
                ELSE [st EXCEPT !.sb = st.sb \o <<BS, c>>, !.escaped = FALSE]
            ELSE [write EXCEPT !.escaped = FALSE]
        ELSE IF c = BS THEN [st EXCEPT !.escaped = TRUE]
        ELSE IF st.inSingleQuotes THEN
            IF c = SQ THEN [st EXCEPT !.inSingleQuotes = FALSE] ELSE write
        ELSE IF c = SQ THEN
            IF st.inDoubleQuotes THEN write
            ELSE [st EXCEPT !.inSingleQuotes = TRUE]
        ELSE IF c = DQ /\ ~st.inSingleQuotes THEN
            [st EXCEPT !.inDoubleQuotes = ~st.inDoubleQuotes]
        ELSE IF ~st.inDoubleQuotes /\ c = SP THEN
            IF Len(st.sb) > 0
            THEN [st EXCEPT !.args = Append(st.args, st.sb), !.sb = <<>>]
            ELSE st
        ELSE write

\* tokenizeStep writing the backslash it kept after the character, not before
tokenizeStepBackslashAfter(st, s, i) ==
    LET c == s[i]
        write == [st EXCEPT !.sb = Append(st.sb, c)]
    IN  IF st.inSingleQuotes THEN
            IF c = SQ THEN [st EXCEPT !.inSingleQuotes = FALSE] ELSE write
        ELSE IF st.escaped THEN
            IF st.inDoubleQuotes THEN
                IF c \in {DOLLAR, BQ, DQ, BS, NL}
                THEN [write EXCEPT !.escaped = FALSE]
                ELSE [st EXCEPT !.sb = st.sb \o <<c, BS>>, !.escaped = FALSE]
            ELSE [write EXCEPT !.escaped = FALSE]
        ELSE IF c = BS THEN [st EXCEPT !.escaped = TRUE]
        ELSE IF c = SQ THEN
            IF st.inDoubleQuotes THEN write
            ELSE [st EXCEPT !.inSingleQuotes = TRUE]
        ELSE IF c = DQ /\ ~st.inSingleQuotes THEN
            [st EXCEPT !.inDoubleQuotes = ~st.inDoubleQuotes]
        ELSE IF ~st.inDoubleQuotes /\ c = SP THEN
            IF Len(st.sb) > 0
            THEN [st EXCEPT !.args = Append(st.args, st.sb), !.sb = <<>>]
            ELSE st
        ELSE write

\* tokenizeStep with the closing single quote ending the current token, as
\* the tokenize of src/unnamed/part_000 does (lines 20 to 29)
tokenizeStepCloseEndsToken(st, s, i) ==
    LET c == s[i]
        write == [st EXCEPT !.sb = Append(st.sb, c)]
    IN  IF st.inSingleQuotes THEN
            IF c = SQ
            THEN [st EXCEPT !.inSingleQuotes = FALSE,
                            !.args = Append(st.args, st.sb), !.sb = <<>>]
            ELSE write
        ELSE IF st.escaped THEN
            IF st.inDoubleQuotes THEN
                IF c \in {DOLLAR, BQ, DQ, BS, NL}
                THEN [write EXCEPT !.escaped = FALSE]
                ELSE [st EXCEPT !.sb = st.sb \o <<BS, c>>, !.escaped = FALSE]
            ELSE [write EXCEPT !.escaped = FALSE]
        ELSE IF c = BS THEN [st EXCEPT !.escaped = TRUE]
        ELSE IF c = SQ THEN
            IF st.inDoubleQuotes THEN write
            ELSE [st EXCEPT !.inSingleQuotes = TRUE]
        ELSE IF c = DQ /\ ~st.inSingleQuotes THEN
            [st EXCEPT !.inDoubleQuotes = ~st.inDoubleQuotes]
        ELSE IF ~st.inDoubleQuotes /\ c = SP THEN
            IF Len(st.sb) > 0
            THEN [st EXCEPT !.args = Append(st.args, st.sb), !.sb = <<>>]
            ELSE st
        ELSE write

tokenizeStep(st, s, i) ==
    LET c == s[i]
        write == [st EXCEPT !.sb = Append(st.sb, c)]
    IN  IF st.inSingleQuotes THEN
            IF c = SQ THEN [st EXCEPT !.inSingleQuotes = FALSE] ELSE write
        ELSE IF st.escaped THEN
            IF st.inDoubleQuotes THEN
                IF c \in {DOLLAR, BQ, DQ, BS, NL}
                THEN [write EXCEPT !.escaped = FALSE]
                ELSE [st EXCEPT !.sb = st.sb \o <<BS, c>>, !.escaped = FALSE]
            ELSE [write EXCEPT !.escaped = FALSE]
        ELSE IF c = BS THEN [st EXCEPT !.escaped = TRUE]
        ELSE IF c = SQ THEN
            IF st.inDoubleQuotes THEN write
            ELSE [st EXCEPT !.inSingleQuotes = TRUE]
        ELSE IF c = DQ /\ ~st.inSingleQuotes THEN
            [st EXCEPT !.inDoubleQuotes = ~st.inDoubleQuotes]
        ELSE IF ~st.inDoubleQuotes /\ c = SP THEN
            IF Len(st.sb) > 0
            THEN [st EXCEPT !.args = Append(st.args, st.sb), !.sb = <<>>]
            ELSE st
        ELSE write

RECURSIVE tokenizeScan(_, _, _, _)
\* the loop over s[i..n]
tokenizeScan(st, s, i, n) ==
    IF i > n THEN st ELSE tokenizeScan(tokenizeStep(st, s, i), s, i + 1, n)

\* the flush after the loop
tokenizeEnd(st) == IF Len(st.sb) > 0 THEN Append(st.args, st.sb) ELSE st.args

tokenize(s) == tokenizeEnd(tokenizeScan(sanitizeStart, s, 1, Len(s)))

(***************************************************************************)
(* parseCMD.  A sink is the terminal or the handle of an opened file; a    *)
(* handle is its index in the list of the files the line opened.  The      *)
(* parse state is the CMD under construction, the files opened so far and  *)
(* how the function ended: "ok", "error" (an open failed, the error is     *)
(* returned) or "panic" (an index out of range).                           *)
(***************************************************************************)
Tty == [tty |-> TRUE, h |-> 0]
Handle(k) == [tty |-> FALSE, h |-> k]

NoCMD == [Name |-> <<>>, Args |-> <<>>, Stdout |-> Tty, Stderr |-> Tty,
          childFiles |-> <<>>]

\* os.OpenFile succeeded: a new open file, truncated unless opened to append
OpenedFile(name, append) ==
    [name |-> name, append |-> append, open |-> TRUE, closes |-> 0]

\* parseArg with the cases of the inner switches confused: 2> and 2>> set
\* cmd.Stdout
parseArgStderrToStdout(ps, orig, i, dir) ==
    LET arg == orig[i]
        cmd == ps.cmd
    IN  IF i > Len(cmd.Args) THEN ps
        ELSE IF arg \in RedirOps THEN
            IF i + 1 > Len(cmd.Args) THEN [ps EXCEPT !.status = "panic"]
            ELSE IF OpenFails(dir, cmd.Args[i + 1])
            THEN [ps EXCEPT !.status = "error", !.err = cmd.Args[i + 1]]
            ELSE LET k == Len(ps.files) + 1
                     f == OpenedFile(cmd.Args[i + 1], arg \in AppendOps)
                 IN  [ps EXCEPT
                        !.files = Append(ps.files, f),
                        !.cmd = [cmd EXCEPT
                            !.Stdout = Handle(k),
                            !.Args = SubSeq(cmd.Args, 1, i - 1),
                            !.childFiles = Append(cmd.childFiles, k)]]
        ELSE ps

\* one pass of the loop "for i, arg := range cmd.Args" on orig[i], where orig
\* is the slice the range statement evaluated once, before the loop
parseArg(ps, orig, i, dir) ==
    LET arg == orig[i]
        cmd == ps.cmd
    IN  IF i > Len(cmd.Args) THEN ps
        ELSE IF arg \in RedirOps THEN
            IF i + 1 > Len(cmd.Args) THEN [ps EXCEPT !.status = "panic"]
            ELSE IF OpenFails(dir, cmd.Args[i + 1])
            THEN [ps EXCEPT !.status = "error", !.err = cmd.Args[i + 1]]
            ELSE LET k == Len(ps.files) + 1
                     f == OpenedFile(cmd.Args[i + 1], arg \in AppendOps)
                 IN  [ps EXCEPT
                        !.files = Append(ps.files, f),
                        !.cmd = [cmd EXCEPT
                            !.Stdout = IF arg \in StdoutOps THEN Handle(k) ELSE @,
                            !.Stderr = IF arg \in StderrOps THEN Handle(k) ELSE @,
                            !.Args = SubSeq(cmd.Args, 1, i - 1),
                            !.childFiles = Append(cmd.childFiles, k)]]
        ELSE ps

RECURSIVE parseLoop(_, _, _, _)
parseLoop(ps, orig, i, dir) ==
    IF i > Len(orig) \/ ps.status # "ok" THEN ps
    ELSE parseLoop(parseArg(ps, orig, i, dir), orig, i + 1, dir)

parseCMD(s, dir) ==
    LET sanitized == sanitizeInput(s)
        cmd == [NoCMD EXCEPT
                  !.Name = IF Len(sanitized) > 0 THEN sanitized[1] ELSE <<>>,
                  !.Args = IF Len(sanitized) > 1 THEN Tail(sanitized) ELSE <<>>]
        start == [cmd |-> cmd, files |-> <<>>, status |-> "ok", err |-> <<>>]
    IN  parseLoop(start, cmd.Args, 1, dir)

(***************************************************************************)
(* The built-ins' helpers.                                                 *)
(***************************************************************************)
Digits == <<"0", "1", "2", "3", "4", "5", "6", "7", "8", "9">>
IsDigit(c) == \E k \in 1..10 : Digits[k] = c
DigitVal(c) == (CHOOSE k \in 1..10 : Digits[k] = c) - 1

RECURSIVE DecimalVal(_, _)
DecimalVal(ds, acc) ==
    IF Len(ds) = 0 THEN acc ELSE DecimalVal(Tail(ds), 10 * acc + DigitVal(Head(ds)))

\* an Atoi that reports no error: 0 for what is not a number
AtoiWithoutError(tok) ==
    LET signed == Len(tok) > 0 /\ tok[1] \in {"+", "-"}
        ds == IF signed THEN Tail(tok) ELSE tok
        ok == Len(ds) > 0 /\ \A k \in 1..Len(ds) : IsDigit(ds[k])
        v == IF ok THEN DecimalVal(ds, 0) ELSE 0
    IN  [ok |-> TRUE, val |-> IF signed /\ tok[1] = "-" THEN 0 - v ELSE v]

\* strconv.Atoi: an optional sign and one or more decimal digits
Atoi(tok) ==
    LET signed == Len(tok) > 0 /\ tok[1] \in {"+", "-"}
        ds == IF signed THEN Tail(tok) ELSE tok
        ok == Len(ds) > 0 /\ \A k \in 1..Len(ds) : IsDigit(ds[k])
        v == IF ok THEN DecimalVal(ds, 0) ELSE 0
    IN  [ok |-> ok, val |-> IF signed /\ tok[1] = "-" THEN 0 - v ELSE v]

RECURSIVE closeAll(_, _)
\* f.Close() on every file of childFiles, in order
closeAll(fs, childFiles) ==
    IF Len(childFiles) = 0 THEN fs
    ELSE LET k == Head(childFiles)
         IN  closeAll([fs EXCEPT ![k].open = FALSE, ![k].closes = @ + 1],
                      Tail(childFiles))

closeChildFiles(fs, c) == closeAll(fs, c.childFiles)

\* one write of text to a sink
Write(sink, text) == [to |-> sink, text |-> text]

\* the number of files of fs that are still open
RECURSIVE OpenCount(_)
OpenCount(fs) ==
    IF Len(fs) = 0 THEN 0
    ELSE (IF Head(fs).open THEN 1 ELSE 0) + OpenCount(Tail(fs))

(***************************************************************************)
(* The candidates of a completion: autocomplete and its helpers, and the   *)
(* Completion of the earlier readInput.                                    *)
(***************************************************************************)
\* strings.HasPrefix and strings.TrimPrefix
HasPrefix(s, prefix) == Len(prefix) <= Len(s) /\ SubSeq(s, 1, Len(prefix)) = prefix
TrimPrefix(s, prefix) ==
    IF HasPrefix(s, prefix) THEN SubSeq(s, Len(prefix) + 1, Len(s)) ELSE s

\* the byte order of the characters of names
Letters ==
    <<"a", "b", "c", "d", "e", "f", "g", "h", "i", "j", "k", "l", "m",
      "n", "o", "p", "q", "r", "s", "t", "u", "v", "w", "x", "y", "z">>
CharCode(c) == CHOOSE i \in 1..Len(Letters) : Letters[i] = c

RECURSIVE StrLess(_, _)
\* a < b on strings
StrLess(a, b) ==
    IF Len(b) = 0 THEN FALSE
    ELSE IF Len(a) = 0 THEN TRUE
    ELSE IF a[1] = b[1] THEN StrLess(Tail(a), Tail(b))
    ELSE CharCode(a[1]) < CharCode(b[1])

\* slices.Sort
Sort(names) == SortSeq(names, StrLess)

RECURSIVE removeDuplicates(_)
removeDuplicates(duplicates) ==
    IF Len(duplicates) = 0 THEN <<>>
    ELSE LET front == removeDuplicates(SubSeq(duplicates, 1, Len(duplicates) - 1))
             v == duplicates[Len(duplicates)]
         IN  IF v \in Range(front) THEN front ELSE Append(front, v)

\* every built-in, whatever the prefix
findBuiltinExecutablesAnyPrefix(prefix) == builtinCMDs

findBuiltinExecutablesHasPrefix(prefix) ==
    SelectSeq(builtinCMDs, LAMBDA v : HasPrefix(v, prefix))

findExecutablesHasPrefix(prefix) ==
    SelectSeq(PathWalk, LAMBDA v : HasPrefix(v, prefix))

\* autocomplete without removeDuplicates: a name that is a built-in and a
\* program is listed twice
autocompleteKeepsDuplicates(prefix) ==
    IF prefix = <<>> THEN [names |-> <<>>, found |-> FALSE]
    ELSE LET names == Sort(findBuiltinExecutablesHasPrefix(prefix)
                           \o findExecutablesHasPrefix(prefix))
         IN  [names |-> names, found |-> Len(names) > 0]

\* autocomplete without its test of the empty prefix: every name matches
autocompleteOfEmptyPrefix(prefix) ==
    LET names == Sort(removeDuplicates(
                     findBuiltinExecutablesHasPrefix(prefix)
                     \o findExecutablesHasPrefix(prefix)))
    IN  [names |-> names, found |-> Len(names) > 0]

autocomplete(prefix) ==
    IF prefix = <<>> THEN [names |-> <<>>, found |-> FALSE]
    ELSE LET names == Sort(removeDuplicates(
                          findBuiltinExecutablesHasPrefix(prefix)
                          \o findExecutablesHasPrefix(prefix)))
         IN  [names |-> names, found |-> Len(names) > 0]

findLongestCommonPrefix(names) ==
    IF Len(names) = 0 THEN [longestCommonPrefix |-> <<>>, found |-> FALSE]
    ELSE LET sorted == Sort(names)
         IN  IF \A i \in 2..Len(sorted) : HasPrefix(sorted[i], sorted[1])
             THEN [longestCommonPrefix |-> sorted[1], found |-> TRUE]
             ELSE [longestCommonPrefix |-> <<>>, found |-> FALSE]

\* var BUILTIN_COMMANDS of the earlier main
BUILTIN_COMMANDS == <<echoW, exitW, typeW, pwdW, cdW>>

\* a Completion that matches with strings.Contains: the first built-in the
\* input occurs in
CompletionContains(in) ==
    LET hits == SelectSeq(BUILTIN_COMMANDS,
                    LAMBDA v : \E k \in 0..(Len(v) - Len(in)) :
                                   SubSeq(v, k + 1, k + Len(in)) = in)
    IN  IF Len(hits) > 0 THEN hits[1] ELSE <<>>

\* (a *autocomplete) Completion: the first built-in the input is a prefix of
Completion(in) ==
    LET hits == SelectSeq(BUILTIN_COMMANDS, LAMBDA v : HasPrefix(v, in))
    IN  IF Len(hits) > 0 THEN hits[1] ELSE <<>>

(***************************************************************************)
(* The lines typed at the prompt.                                          *)
(***************************************************************************)
Commands == {echoW, exitW, typeW, pwdW, cdW, lsW, zzW}
ArgWords == RedirOps \cup {fW, gW}
SeqsUpTo(W, n) == UNION {[1..k -> W] : k \in 0..n}
\* arguments for exit, and names for type to look up
ExitArgWords == {<<"7">>, <<"1", "2">>, <<"-", "1">>}
TypeArgWords == {echoW, cdW, lsW, zzW}
PromptLines ==
    {<<>>} \cup {JoinSp(<<c>> \o as) : c \in Commands, as \in SeqsUpTo(ArgWords, MaxArgs)}
           \cup {JoinSp(<<exitW, a>>) : a \in ExitArgWords}
           \cup {JoinSp(<<typeW, a>>) : a \in TypeArgWords}

(***************************************************************************)
(* The state of the shell.                                                 *)
(***************************************************************************)
VARIABLES
    pc,        \* where main is: "prompt", "readInput", "parseCMD", "dispatch"
    proc,      \* "running", "exited" (os.Exit) or "panicked"
    cause,     \* what ended the process
    exitCode,  \* the argument of os.Exit
    term,      \* the terminal: "cooked" (as it was at start) or "raw"
    input,     \* the line readInput returned
    cmd,       \* the CMD parseCMD returned
    files,     \* the files opened for the current line
    leaked,    \* files of earlier lines that are still open
    cwd,       \* the working directory
    writes,    \* what the current line wrote, in order
    ran,       \* the handler or process the current line ran
    nlines,    \* lines committed so far
    scanner,   \* the scanner under way: "sanitizeInput" or "tokenize"
    raw,       \* the line it scans
    pos,       \* the index of the next character
    scan,      \* the scanner's locals
    toks,      \* the tokens it returned
    editor,    \* the readInput under way: "part_005", "main.go" or "none"
    key,       \* the key readInput handled last
    nkeys,     \* keys handled so far
    tabs,      \* Tab keys handled in a row since the last other key
    wasTab,    \* readInput's local wasTab
    autocompleteNames,  \* readInput's local autocompleteNames
    out        \* what the handler of the last key wrote to the terminal

shellVars == <<pc, proc, cause, exitCode, term, input, cmd, files, leaked,
               cwd, writes, ran, nlines>>
scanVars == <<scanner, raw, pos, scan, toks>>
editVars == <<editor, key, nkeys, tabs, wasTab, autocompleteNames, out>>
vars == <<pc, proc, cause, exitCode, term, input, cmd, files, leaked,
          cwd, writes, ran, nlines, scanner, raw, pos, scan, toks,
          editor, key, nkeys, tabs, wasTab, autocompleteNames, out>>

ScanIdle ==
    /\ scanner = "none"
    /\ raw = <<>>
    /\ pos = 1
    /\ scan = sanitizeStart
    /\ toks = <<>>

EditIdle ==
    /\ editor = "none"
    /\ key = "none"
    /\ nkeys = 0
    /\ tabs = 0
    /\ wasTab = FALSE
    /\ autocompleteNames = <<>>
    /\ out = <<>>

Init ==
    /\ pc = "prompt"
    /\ proc = "running"
    /\ cause = "none"
    /\ exitCode = 0
    /\ term = "cooked"
    /\ input = <<>>
    /\ cmd = NoCMD
    /\ files = <<>>
    /\ leaked = 0
    /\ cwd = RootDir
    /\ writes = <<>>
    /\ ran = <<>>
    /\ nlines = 0
    /\ ScanIdle
    /\ EditIdle

(***************************************************************************)
(* main and readInput.                                                     *)
(***************************************************************************)
Running == proc = "running"

\* main prints the prompt and calls readInput, which puts the terminal in raw
\* mode; cmd, err and the line are fresh locals of the new iteration
Prompt ==
    /\ Running /\ pc = "prompt"
    /\ pc' = "readInput"
    /\ term' = "raw"
    /\ leaked' = leaked + OpenCount(files)
    /\ files' = <<>>
    /\ input' = <<>>
    /\ cmd' = NoCMD
    /\ writes' = <<>>
    /\ ran' = <<>>
    /\ UNCHANGED <<proc, cause, exitCode, cwd, nlines>>
    /\ UNCHANGED <<scanVars, editVars>>

\* term.MakeRaw fails: readInput panics before the terminal is touched
MakeRawFails ==
    /\ Running /\ pc = "prompt"
    /\ proc' = "panicked"
    /\ cause' = "MakeRaw"
    /\ UNCHANGED <<pc, exitCode, term, input, cmd, files, leaked, cwd, writes,
                   ran, nlines>>
    /\ UNCHANGED <<scanVars, editVars>>

\* Enter: readInput leaves its loop and returns the line; the deferred
\* term.Restore runs
Enter(line) ==
    /\ Running /\ pc = "readInput"
    /\ nlines < MaxLines
    /\ input' = line
    /\ term' = "cooked"
    /\ pc' = "parseCMD"
    /\ nlines' = nlines + 1
    /\ UNCHANGED <<proc, cause, exitCode, cmd, files, leaked, cwd, writes, ran>>
    /\ UNCHANGED <<scanVars, editVars>>

\* Ctrl+C: os.Exit(0) inside readInput; deferred calls do not run
Interrupt ==
    /\ Running /\ pc = "readInput"
    /\ proc' = "exited"
    /\ cause' = "interrupt"
    /\ exitCode' = 0
    /\ UNCHANGED <<pc, term, input, cmd, files, leaked, cwd, writes, ran, nlines>>
    /\ UNCHANGED <<scanVars, editVars>>

\* cmd, err := parseCMD(input), and main's handling of err
ParseCMD ==
    /\ Running /\ pc = "parseCMD"
    /\ LET ps == parseCMD(input, cwd)
       IN  /\ files' = ps.files
           /\ IF ps.status = "panic"
              THEN /\ proc' = "panicked"
                   /\ cause' = "index out of range"
                   /\ UNCHANGED <<pc, cmd, writes>>
              ELSE IF ps.status = "error"
              THEN /\ writes' = Append(writes,
                        Write(Tty, <<"open ">> \o ps.err \o <<": is a directory", NL>>))
                   /\ pc' = "prompt"
                   /\ UNCHANGED <<proc, cause, cmd>>
              ELSE /\ cmd' = ps.cmd
                   /\ pc' = "dispatch"
                   /\ UNCHANGED <<proc, cause, writes>>
    /\ UNCHANGED <<exitCode, term, input, leaked, cwd, ran, nlines>>
    /\ UNCHANGED <<scanVars, editVars>>

Ran(kind, status) ==
    [kind |-> kind, Name |-> cmd.Name, Args |-> cmd.Args,
     Stdout |-> cmd.Stdout, Stderr |-> cmd.Stderr, status |-> status,
     path |-> IF kind = "external" THEN PathOf(cmd.Name) ELSE <<>>]

Dispatching(name) == Running /\ pc = "dispatch" /\ cmd.Name = name

\* the case labels of main's switch cmd.Name
CaseLabels == {exitW, echoW, typeW, pwdW, cdW, <<>>}

\* case "exit": cmd.Exit()
Exit ==
    /\ Dispatching(exitW)
    /\ proc' = "exited"
    /\ cause' = "exit"
    /\ ran' = Append(ran, Ran("builtin", 0))
    /\ IF Len(cmd.Args) = 0
       THEN exitCode' = 0 /\ UNCHANGED writes
       ELSE LET code == Atoi(cmd.Args[1])
            IN  IF code.ok
                THEN exitCode' = code.val /\ UNCHANGED writes
                ELSE /\ exitCode' = 0
                     /\ writes' = Append(writes,
                            Write(Tty, <<"err convert exit code:", SP>> \o cmd.Args[1]
                                       \o <<": invalid syntax", NL>>))
    /\ UNCHANGED <<pc, term, input, cmd, files, leaked, cwd, nlines>>
    /\ UNCHANGED <<scanVars, editVars>>

\* case "echo": cmd.Echo()
Echo ==
    /\ Dispatching(echoW)
    /\ writes' = Append(writes, Write(cmd.Stdout, JoinSp(cmd.Args) \o <<NL>>))
    /\ files' = closeChildFiles(files, cmd)
    /\ ran' = Append(ran, Ran("builtin", 0))
    /\ pc' = "prompt"
    /\ UNCHANGED <<proc, cause, exitCode, term, input, cmd, leaked, cwd, nlines>>
    /\ UNCHANGED <<scanVars, editVars>>

\* case "type": cmd.Type()
Type ==
    /\ Dispatching(typeW)
    /\ writes' = Append(writes, Write(Tty,
            IF Len(cmd.Args) = 0 THEN <<"missing argument", NL>>
            ELSE LET value == cmd.Args[1]
                 IN  IF value \in Range(builtinCMDs)
                     THEN value \o <<SP, "is a shell builtin", NL>>
                     ELSE IF LookPath(value)
                     THEN value \o <<SP, "is", SP>> \o PathOf(value) \o <<NL>>
                     ELSE value \o <<": not found", NL>>))
    /\ ran' = Append(ran, Ran("builtin", 0))
    /\ pc' = "prompt"
    /\ UNCHANGED <<proc, cause, exitCode, term, input, cmd, files, leaked, cwd, nlines>>
    /\ UNCHANGED <<scanVars, editVars>>

\* case "pwd": cmd.PWD()
PWD ==
    /\ Dispatching(pwdW)
    /\ writes' = Append(writes, Write(Tty, cwd \o <<NL>>))
    /\ ran' = Append(ran, Ran("builtin", 0))
    /\ pc' = "prompt"
    /\ UNCHANGED <<proc, cause, exitCode, term, input, cmd, files, leaked, cwd, nlines>>
    /\ UNCHANGED <<scanVars, editVars>>

\* case "cd": cmd.CD()
CD ==
    /\ Dispatching(cdW)
    /\ IF Len(cmd.Args) = 0 THEN UNCHANGED <<cwd, writes>>
       ELSE LET dir == IF cmd.Args[1] = <<"~">> THEN HomeDir ELSE cmd.Args[1]
                to == Chdir(cwd, dir)
            IN  IF to # <<>>
                THEN cwd' = to /\ UNCHANGED writes
                ELSE /\ writes' = Append(writes,
                            Write(Tty, <<"cd: ">> \o dir
                                       \o <<": No such file or directory", NL>>))
                     /\ UNCHANGED cwd
    /\ ran' = Append(ran, Ran("builtin", 0))
    /\ pc' = "prompt"
    /\ UNCHANGED <<proc, cause, exitCode, term, input, cmd, files, leaked, nlines>>
    /\ UNCHANGED <<scanVars, editVars>>

\* case "": continue
EmptyLine ==
    /\ Dispatching(<<>>)
    /\ pc' = "prompt"
    /\ UNCHANGED <<proc, cause, exitCode, term, input, cmd, files, leaked, cwd,
                   writes, ran, nlines>>
    /\ UNCHANGED <<scanVars, editVars>>

\* default: exec.Command(cmd.Name, cmd.Args...).Run(); the process found on the
\* search path ends with some status
External(status) ==
    /\ Running /\ pc = "dispatch"
    /\ cmd.Name \notin CaseLabels
    /\ IF LookPath(cmd.Name)
       THEN /\ ran' = Append(ran, Ran("external", status))
            /\ UNCHANGED writes
       ELSE /\ status = 0
            /\ writes' = Append(writes,
                    Write(Tty, cmd.Name \o <<": command not found", NL>>))
            /\ UNCHANGED ran
    /\ pc' = "prompt"
    /\ UNCHANGED <<proc, cause, exitCode, term, input, cmd, files, leaked, cwd, nlines>>
    /\ UNCHANGED <<scanVars, editVars>>

ExitStatuses == {0, 1}

Next ==
    \/ Prompt
    \/ MakeRawFails
    \/ \E line \in PromptLines : Enter(line)
    \/ Interrupt
    \/ ParseCMD
    \/ Exit
    \/ Echo
    \/ Type
    \/ PWD
    \/ CD
    \/ EmptyLine
    \/ \E status \in ExitStatuses : External(status)

Spec == Init /\ [][Next]_vars

(***************************************************************************)
(* SpecLine: one committed line, from parseCMD to the next prompt, for     *)
(* lines with more words than the ones typed in Spec.                      *)
(***************************************************************************)
LineCommands == {echoW, lsW}
LineArgWords == ArgWords \cup {gtfW}
LineInputs ==
    {JoinSp(<<c>> \o as) : c \in LineCommands, as \in SeqsUpTo(LineArgWords, MaxLineArgs)}

InitLine ==
    /\ pc = "parseCMD"
    /\ proc = "running"
    /\ cause = "none"
    /\ exitCode = 0
    /\ term = "cooked"
    /\ input \in LineInputs
    /\ cmd = NoCMD
    /\ files = <<>>
    /\ leaked = 0
    /\ cwd = RootDir
    /\ writes = <<>>
    /\ ran = <<>>
    /\ nlines = 1
    /\ ScanIdle
    /\ EditIdle

NextLine ==
    \/ ParseCMD
    \/ Echo
    \/ \E status \in ExitStatuses : External(status)

SpecLine == InitLine /\ [][NextLine]_vars

(***************************************************************************)
(* SpecTok: the two scanners, one character at a time, on every raw line   *)
(* of up to MaxLineLen characters.                                         *)
(***************************************************************************)
\* readInput ends a line at a newline and takes a tab as the completion key, so
\* a raw line holds neither
TokChars == {"a", SP, SQ, DQ, BS, DOLLAR, BQ}
RawLines == SeqsUpTo(TokChars, MaxLineLen)

InitTok ==
    /\ pc = "parseCMD"
    /\ proc = "running"
    /\ cause = "none"
    /\ exitCode = 0
    /\ term = "cooked"
    /\ input = <<>>
    /\ cmd = NoCMD
    /\ files = <<>>
    /\ leaked = 0
    /\ cwd = RootDir
    /\ writes = <<>>
    /\ ran = <<>>
    /\ nlines = 1
    /\ scanner \in {"sanitizeInput", "tokenize"}
    /\ raw \in RawLines
    /\ pos = 1
    /\ scan = sanitizeStart
    /\ toks = <<>>
    /\ EditIdle

\* one pass of sanitizeInput's loop
SanitizeChar ==
    /\ scanner = "sanitizeInput"
    /\ pos <= Len(raw)
    /\ scan' = sanitizeStep(scan, raw, pos)
    /\ pos' = pos + 1
    /\ UNCHANGED <<scanner, raw, toks>>
    /\ UNCHANGED <<shellVars, editVars>>

\* sanitizeInput returns
SanitizeReturn ==
    /\ scanner = "sanitizeInput"
    /\ pos = Len(raw) + 1
    /\ toks' = sanitizeEnd(scan)
    /\ pos' = pos + 1
    /\ UNCHANGED <<scanner, raw, scan>>
    /\ UNCHANGED <<shellVars, editVars>>

\* one pass of tokenize's loop
TokenizeChar ==
    /\ scanner = "tokenize"
    /\ pos <= Len(raw)
    /\ scan' = tokenizeStep(scan, raw, pos)
    /\ pos' = pos + 1
    /\ UNCHANGED <<scanner, raw, toks>>
    /\ UNCHANGED <<shellVars, editVars>>

\* tokenize returns
TokenizeReturn ==
    /\ scanner = "tokenize"
    /\ pos = Len(raw) + 1
    /\ toks' = tokenizeEnd(scan)
    /\ pos' = pos + 1
    /\ UNCHANGED <<scanner, raw, scan>>
    /\ UNCHANGED <<shellVars, editVars>>

NextTok ==
    \/ SanitizeChar
    \/ SanitizeReturn
    \/ TokenizeChar
    \/ TokenizeReturn

SpecTok == InitTok /\ [][NextTok]_vars

\* the scanner has returned
Returned == pos = Len(raw) + 2

(***************************************************************************)
(* SpecEdit: readInput one key at a time.  The readInput of                *)
(* src/unnamed/part_005 and the earlier readInput of                       *)
(* src/cmd/myshell/main.go (lines 42 to 76) are two editors over the same  *)
(* variables; input is the buffer under edit (the local input of both).    *)
(***************************************************************************)
\* keys handled in one run of readInput
MaxKeys == 5

\* the keys and the control characters written to the terminal
TAB == "\t"
CR == "\r"
DEL == "<0x7F>"
BSP == "<0x08>"
ETX == "<0x03>"
BEL == "<0x07>"
\* the escape sequence \033[K
ERASE == "<esc>[K"

\* the printable keys typed in the model
EditChars == {"e", "c", "p", "m"}

\* the prompt main hands to the earlier readInput: "\r\033[K$ "
OldPrompt == <<CR, ERASE, "$", SP>>

RECURSIVE JoinWith(_, _)
\* strings.Join(names, sep)
JoinWith(names, sep) ==
    IF Len(names) = 0 THEN <<>>
    ELSE IF Len(names) = 1 THEN names[1]
    ELSE names[1] \o sep \o JoinWith(Tail(names), sep)

RECURSIVE TrimSpace(_)
\* strings.TrimSpace
TrimSpace(s) ==
    IF Len(s) = 0 THEN s
    ELSE IF IsSpace(s[1]) THEN TrimSpace(Tail(s))
    ELSE IF IsSpace(s[Len(s)]) THEN TrimSpace(SubSeq(s, 1, Len(s) - 1))
    ELSE s

InitEdit ==
    /\ pc = "readInput"
    /\ proc = "running"
    /\ cause = "none"
    /\ exitCode = 0
    /\ term = "raw"
    /\ input = <<>>
    /\ cmd = NoCMD
    /\ files = <<>>
    /\ leaked = 0
    /\ cwd = RootDir
    /\ writes = <<>>
    /\ ran = <<>>
    /\ nlines = 0
    /\ ScanIdle
    /\ editor \in {"part_005", "main.go"}
    /\ key = "none"
    /\ nkeys = 0
    /\ tabs = 0
    /\ wasTab = FALSE
    /\ autocompleteNames = <<>>
    /\ out = <<>>

\* what a read that failed leaves as the last thing read; a reader that has
\* failed fails again on every later read
EOF == "EOF"

\* r.ReadRune() (reader.ReadByte() in the earlier readInput) returned the key k
ReadKey(ed, k) ==
    /\ Running /\ pc = "readInput"
    /\ editor = ed
    /\ key # EOF
    /\ nkeys < MaxKeys
    /\ key' = k
    /\ nkeys' = nkeys + 1
    /\ tabs' = IF k = TAB THEN tabs + 1 ELSE 0
    /\ UNCHANGED <<editor, cmd, files, leaked, cwd, writes, ran, nlines>>
    /\ UNCHANGED scanVars

\* case '\x03' leaving the loop as Enter does, in place of os.Exit(0)
ReadCtrlCBreaksLoop ==
    /\ ReadKey("part_005", ETX)
    /\ out' = <<>>
    /\ pc' = "parseCMD"
    /\ term' = "cooked"
    /\ UNCHANGED <<proc, cause, exitCode, input, wasTab, autocompleteNames>>

\* case '\x03': os.Exit(0)
ReadCtrlC ==
    /\ ReadKey("part_005", ETX)
    /\ proc' = "exited"
    /\ cause' = "interrupt"
    /\ exitCode' = 0
    /\ out' = <<>>
    /\ UNCHANGED <<pc, term, input, wasTab, autocompleteNames>>

\* case '\r', '\n': the loop ends, readInput returns and term.Restore runs
ReadEnter(c) ==
    /\ ReadKey("part_005", c)
    /\ out' = <<CR, NL>>
    /\ pc' = "parseCMD"
    /\ term' = "cooked"
    /\ UNCHANGED <<proc, cause, exitCode, input, wasTab, autocompleteNames>>

\* case '\x7F' leaving wasTab and autocompleteNames as they are
ReadBackspaceKeepsTabState ==
    /\ ReadKey("part_005", DEL)
    /\ IF Len(input) > 0
       THEN /\ input' = SubSeq(input, 1, Len(input) - 1)
            /\ out' = <<BSP, SP, BSP>>
       ELSE /\ input' = input
            /\ out' = <<>>
    /\ UNCHANGED <<autocompleteNames, wasTab>>
    /\ UNCHANGED <<pc, proc, cause, exitCode, term>>

\* case '\x7F'
ReadBackspace ==
    /\ ReadKey("part_005", DEL)
    /\ IF Len(input) > 0
       THEN /\ input' = SubSeq(input, 1, Len(input) - 1)
            /\ out' = <<BSP, SP, BSP>>
       ELSE /\ input' = input
            /\ out' = <<>>
    /\ autocompleteNames' = <<>>
    /\ wasTab' = FALSE
    /\ UNCHANGED <<pc, proc, cause, exitCode, term>>

\* case '\t'
ReadTab ==
    /\ ReadKey("part_005", TAB)
    /\ LET fresh == Len(autocompleteNames) = 0
           ac == autocomplete(input)
           names == IF fresh THEN ac.names ELSE autocompleteNames
           lcp == findLongestCommonPrefix(names)
       IN  IF fresh /\ ~ac.found
           THEN /\ out' = <<BEL>>
                /\ UNCHANGED <<input, wasTab, autocompleteNames>>
           ELSE IF Len(names) = 1
           THEN LET suffix == TrimPrefix(names[1], input)
                IN  /\ input' = input \o suffix \o <<SP>>
                    /\ out' = suffix \o <<SP>>
                    /\ autocompleteNames' = names
                    /\ UNCHANGED wasTab
           ELSE IF lcp.found
           THEN LET suffix == TrimPrefix(lcp.longestCommonPrefix, input)
                IN  /\ input' = input \o suffix
                    /\ out' = suffix
                    /\ autocompleteNames' = <<>>
                    /\ wasTab' = FALSE
           ELSE IF ~wasTab
           THEN /\ out' = <<BEL>>
                /\ wasTab' = TRUE
                /\ autocompleteNames' = names
                /\ UNCHANGED input
           ELSE /\ out' = <<CR, NL>> \o JoinWith(names, <<SP, SP>>) \o <<CR, NL>>
                          \o <<"$", SP>> \o input
                /\ autocompleteNames' = names
                /\ UNCHANGED <<input, wasTab>>
    /\ UNCHANGED <<pc, proc, cause, exitCode, term>>

\* default: any other character, the code 8 among them
ReadDefault(c) ==
    /\ ReadKey("part_005", c)
    /\ input' = Append(input, c)
    /\ out' = <<c>>
    /\ wasTab' = FALSE
    /\ autocompleteNames' = <<>>
    /\ UNCHANGED <<pc, proc, cause, exitCode, term>>

\* the earlier readInput, b == '\n': it returns the trimmed buffer
OldReadEnter ==
    /\ ReadKey("main.go", NL)
    /\ out' = <<CR, NL>>
    /\ input' = TrimSpace(input)
    /\ pc' = "parseCMD"
    /\ UNCHANGED <<proc, cause, exitCode, term, wasTab, autocompleteNames>>

\* the earlier readInput, b == '\t'
OldReadTab ==
    /\ ReadKey("main.go", TAB)
    /\ LET completion == Completion(input)
       IN  input' = IF completion # <<>> THEN completion ELSE input
    /\ out' = <<CR, ERASE>> \o OldPrompt \o input' \o <<SP>>
    /\ UNCHANGED <<pc, proc, cause, exitCode, term, wasTab, autocompleteNames>>

\* the earlier readInput, b == 127 || b == 8
OldReadBackspace(b) ==
    /\ ReadKey("main.go", b)
    /\ input' = IF Len(input) > 0 THEN SubSeq(input, 1, Len(input) - 1) ELSE input
    /\ out' = <<CR, ERASE>> \o OldPrompt \o input'
    /\ UNCHANGED <<pc, proc, cause, exitCode, term, wasTab, autocompleteNames>>

\* the earlier readInput, any other byte
OldReadDefault(b) ==
    /\ ReadKey("main.go", b)
    /\ input' = Append(input, b)
    /\ out' = <<b>>
    /\ UNCHANGED <<pc, proc, cause, exitCode, term, wasTab, autocompleteNames>>

\* the earlier main: input = strings.TrimSpace(input); tokens := tokenize(input)
OldTokenize ==
    /\ Running /\ pc = "parseCMD"
    /\ editor = "main.go"
    /\ scanner' = "tokenize"
    /\ raw' = TrimSpace(input)
    /\ toks' = tokenize(TrimSpace(input))
    /\ pc' = "redirect"
    /\ UNCHANGED <<proc, cause, exitCode, term, input, cmd, files, leaked, cwd,
                   writes, ran, nlines, pos, scan>>
    /\ UNCHANGED editVars

NextEdit ==
    \/ ReadCtrlC
    \/ \E c \in {CR, NL} : ReadEnter(c)
    \/ ReadBackspace
    \/ ReadTab
    \/ \E c \in EditChars \cup {BSP} : ReadDefault(c)
    \/ OldReadEnter
    \/ OldReadTab
    \/ \E b \in {DEL, BSP} : OldReadBackspace(b)
    \/ \E b \in EditChars \cup {ETX} : OldReadDefault(b)
    \/ OldTokenize
    \/ editor = "part_005" /\ ParseCMD
    \/ Echo
    \/ PWD
    \/ CD
    \/ EmptyLine
    \/ \E status \in ExitStatuses : External(status)

SpecEdit == InitEdit /\ [][NextEdit]_vars

(***************************************************************************)
(* SpecRead: SpecEdit with reads that fail, and with the loops of          *)
(* readInput and main going on whenever they can.                          *)
(***************************************************************************)
\* r.ReadRune() returned an error: fmt.Println(err); continue
ReadFails ==
    /\ Running /\ pc = "readInput"
    /\ editor = "part_005"
    /\ key' = EOF
    /\ out' = <<EOF, NL>>
    /\ UNCHANGED <<editor, nkeys, tabs, wasTab, autocompleteNames>>
    /\ UNCHANGED <<shellVars, scanVars>>

\* the earlier readInput: reader.ReadByte() returned an error, readInput
\* returns "" and the error, main reports it and goes round its loop
OldReadFails ==
    /\ Running /\ pc = "readInput"
    /\ editor = "main.go"
    /\ key # EOF
    /\ key' = EOF
    /\ out' = <<>>
    /\ input' = <<>>
    /\ writes' = Append(writes,
            Write(Tty, <<"Error reading input:", SP,
                         "Error when reading user input: ", EOF, NL>>))
    /\ pc' = "prompt"
    /\ UNCHANGED <<editor, nkeys, tabs, wasTab, autocompleteNames>>
    /\ UNCHANGED <<proc, cause, exitCode, term, cmd, files, leaked, cwd, ran, nlines>>
    /\ UNCHANGED scanVars

NextRead ==
    \/ NextEdit
    \/ ReadFails
    \/ OldReadFails

SpecRead == InitEdit /\ [][NextRead]_vars /\ WF_vars(NextRead)

(***************************************************************************)
(* SpecCommit: the end of readInput and what main does with the line, from *)
(* every buffer of up to MaxLineLen characters that the keys typed so far  *)
(* have left (a typed character leaves no tab state behind).               *)
(***************************************************************************)
CommitBuffers == SeqsUpTo(TokChars, MaxLineLen)

InitCommit ==
    /\ pc = "readInput"
    /\ proc = "running"
    /\ cause = "none"
    /\ exitCode = 0
    /\ term = "raw"
    /\ input \in CommitBuffers
    /\ cmd = NoCMD
    /\ files = <<>>
    /\ leaked = 0
    /\ cwd = RootDir
    /\ writes = <<>>
    /\ ran = <<>>
    /\ nlines = 0
    /\ ScanIdle
    /\ editor \in {"part_005", "main.go"}
    /\ key = IF Len(input) = 0 THEN "none" ELSE input[Len(input)]
    /\ nkeys = Len(input)
    /\ tabs = 0
    /\ wasTab = FALSE
    /\ autocompleteNames = <<>>
    /\ out = <<>>

NextCommit ==
    \/ \E c \in {CR, NL} : ReadEnter(c)
    \/ ReadCtrlC
    \/ OldReadEnter
    \/ OldTokenize
    \/ editor = "part_005" /\ ParseCMD
    \/ EmptyLine
    \/ \E status \in ExitStatuses : External(status)

SpecCommit == InitCommit /\ [][NextCommit]_vars

(***************************************************************************)
(* What the claims speak of.                                               *)
(***************************************************************************)
\* the tokens of the committed line, and its argument tokens
LineTokens == sanitizeInput(input)
LineArgs == IF Len(LineTokens) > 1 THEN Tail(LineTokens) ELSE <<>>

\* main has a committed line and parseCMD has returned or panicked on it
Parsed == input # <<>> /\ (pc \in {"dispatch", "prompt"} \/ proc # "running")

\* the file a sink writes to
SinkFile(sink) == files[sink.h]

\* a sink is the file called name, opened to append or to truncate
SinkIs(sink, name, append) ==
    /\ ~sink.tty
    /\ sink.h \in 1..Len(files)
    /\ SinkFile(sink).name = name
    /\ SinkFile(sink).append = append

\* the operators, the stream and the mode of each, as the specification lists
\* them
IsOperator(tok) ==
    tok \in {<<">">>, <<"1", ">">>, <<">", ">">>, <<"1", ">", ">">>,
             <<"2", ">">>, <<"2", ">", ">">>}
OpStream(op) ==
    IF op \in {<<">">>, <<"1", ">">>, <<">", ">">>, <<"1", ">", ">">>}
    THEN "stdout" ELSE "stderr"
OpAppends(op) == op \in {<<">", ">">>, <<"1", ">", ">">>, <<"2", ">", ">">>}

OpPositions(ts) == {i \in 1..Len(ts) : IsOperator(ts[i])}

RECURSIVE RemoveRedirs(_)
\* the tokens left when a left-to-right pass removes every operator and the
\* token after it
RemoveRedirs(ts) ==
    IF Len(ts) = 0 THEN <<>>
    ELSE IF IsOperator(ts[1]) /\ Len(ts) >= 2 THEN RemoveRedirs(Tail(Tail(ts)))
    ELSE <<ts[1]>> \o RemoveRedirs(Tail(ts))

RECURSIVE MissingFilename(_)
\* a left-to-right pass that takes each operator with the token after it
\* ends on an operator that has no token after it
MissingFilename(ts) ==
    IF Len(ts) = 0 THEN FALSE
    ELSE IF IsOperator(ts[1])
         THEN Len(ts) = 1 \/ MissingFilename(Tail(Tail(ts)))
         ELSE MissingFilename(Tail(ts))

\* the sink of a stream of a command
SinkOf(c, stream) == IF stream = "stdout" THEN c.Stdout ELSE c.Stderr

\* C1: at every prompt for a next line, every file the line before opened for
\* redirection has been closed exactly once and none is still open.
C1_HandlesClosedOnceAtPrompt ==
    (Running /\ pc = "prompt") =>
        /\ leaked = 0
        /\ \A k \in 1..Len(files) : ~files[k].open /\ files[k].closes = 1

\* C2: when the committed line ends on a redirection operator that has no
\* filename after it, the line is abandoned with a reported error: the shell
\* is back at the prompt, no file was opened, nothing ran and a message was
\* written.
C2_MissingFilenameAbandonsLine ==
    (Parsed /\ MissingFilename(LineArgs)) =>
        /\ Running /\ pc = "prompt"
        /\ files = <<>>
        /\ ran = <<>>
        /\ writes # <<>>

\* C3: while a committed line is processed, from Enter to the next prompt,
\* the process ends only through the exit built-in.
C3_OnlyExitEndsALine ==
    (~Running /\ pc \in {"parseCMD", "dispatch"}) => cause = "exit"

\* C4: whenever the process has terminated, the terminal is back in the
\* configuration it had before raw mode.
C4_TerminalRestoredAtExit == ~Running => term = "cooked"

\* C5: a line with one stdout and one stderr redirection, in either order,
\* whose targets can be opened, runs its command with stdout on the stdout
\* target, stderr on the stderr target, and the other tokens as arguments.
C5_BothStreamsRedirected ==
    LET a == LineArgs
    IN  \A i, j \in OpPositions(a) :
            ( /\ pc = "prompt"
              /\ OpPositions(a) = {i, j}
              /\ OpStream(a[i]) = "stdout" /\ OpStream(a[j]) = "stderr"
              /\ i + 1 # j /\ j + 1 # i
              /\ i + 1 <= Len(a) /\ j + 1 <= Len(a)
              /\ ~OpenFails(cwd, a[i + 1]) /\ ~OpenFails(cwd, a[j + 1]) )
            => /\ Len(ran) = 1
               /\ SinkIs(ran[1].Stdout, a[i + 1], OpAppends(a[i]))
               /\ SinkIs(ran[1].Stderr, a[j + 1], OpAppends(a[j]))
               /\ ran[1].Args = RemoveRedirs(a)

\* C6: when a line redirects the same stream twice, the later redirection
\* gives that stream its target file and its mode.
C6_LaterRedirectionWins ==
    LET a == LineArgs
    IN  \A i, j \in OpPositions(a) :
            ( /\ pc = "dispatch"
              /\ OpPositions(a) = {i, j} /\ i + 1 < j /\ j + 1 <= Len(a)
              /\ OpStream(a[i]) = OpStream(a[j])
              /\ ~OpenFails(cwd, a[i + 1]) /\ ~OpenFails(cwd, a[j + 1]) )
            => SinkIs(SinkOf(cmd, OpStream(a[j])), a[j + 1], OpAppends(a[j]))

\* C7: the arguments of the parsed command are the argument tokens of the line
\* without each operator and the one token after it, in their order.
C7_OnlyRedirectionTokensRemoved ==
    (pc = "dispatch" /\ ~MissingFilename(LineArgs)) =>
        cmd.Args = RemoveRedirs(LineArgs)

\* C8: in the command parseCMD returns, a stream with no operator token of its
\* own among the arguments keeps the terminal (a token that only contains an
\* operator redirects nothing); a redirected stream has the file and the mode
\* that one of its operator tokens gives it by the table (> 1> stdout
\* truncate, >> 1>> stdout append, 2> stderr truncate, 2>> stderr append, the
\* file named by the next token); and the only operator of a line always
\* redirects its stream so.
C8_OperatorTable ==
    pc = "dispatch" =>
        LET a == LineArgs
            P == OpPositions(a)
        IN  /\ \A stream \in {"stdout", "stderr"} :
                LET sink == SinkOf(cmd, stream)
                    own == {i \in P : OpStream(a[i]) = stream}
                IN  /\ own = {} => sink = Tty
                    /\ ~sink.tty =>
                        \E i \in own :
                            i + 1 <= Len(a) /\ SinkIs(sink, a[i + 1], OpAppends(a[i]))
            /\ \A i \in P :
                P = {i} =>
                    /\ i + 1 <= Len(a)
                    /\ SinkIs(SinkOf(cmd, OpStream(a[i])), a[i + 1], OpAppends(a[i]))

\* C8 witness: parseCMD returned a command whose stderr appends to a file,
\* from a line with that one operator and a token that only contains one.
C8_Witness ==
    /\ pc = "dispatch"
    /\ Cardinality(OpPositions(LineArgs)) = 1
    /\ \E i \in 1..Len(LineArgs) : LineArgs[i] = gtfW
    /\ ~cmd.Stderr.tty
    /\ SinkFile(cmd.Stderr).append
    /\ cmd.Stdout = Tty

RECURSIVE Flatten(_)
Flatten(ts) == IF Len(ts) = 0 THEN <<>> ELSE ts[1] \o Flatten(Tail(ts))

\* the number of quote characters in a sequence of characters
QuoteCount(cs) == Cardinality({i \in 1..Len(cs) : cs[i] \in {SQ, DQ}})

\* the characters a scanner state holds: the finished tokens and the current one
TextOf(st) == Flatten(st.args) \o st.sb

\* C9: a scanner step puts a quote character into a token only when the
\* character it reads is that quote and it is escaped by the backslash before
\* it or stands inside the other kind of quotes; a quote that opens or closes
\* a quoted segment is not put into any token, and returning adds none.
C9_QuotesInTokens ==
    [][ /\ (pos <= Len(raw) /\ pos' = pos + 1) =>
            LET c == raw[pos]
                d == QuoteCount(TextOf(scan')) - QuoteCount(TextOf(scan))
            IN  /\ d \in {0, 1}
                /\ d = 1 =>
                    /\ c \in {SQ, DQ}
                    /\ \/ scan.escaped /\ pos > 1 /\ raw[pos - 1] = BS
                       \/ c = SQ /\ scan.inDoubleQuotes
                       \/ c = DQ /\ scan.inSingleQuotes
                /\ ( \/ scan'.inSingleQuotes # scan.inSingleQuotes
                     \/ scan'.inDoubleQuotes # scan.inDoubleQuotes ) => d = 0
        /\ (pos = Len(raw) + 1 /\ pos' = pos + 1) =>
            QuoteCount(Flatten(toks')) = QuoteCount(TextOf(scan))
      ]_vars

\* C9 witness: a scanner returned a token with a quote character in it, from a
\* line in which other quote characters opened and closed a segment.
C9_Witness ==
    /\ Returned
    /\ QuoteCount(Flatten(toks)) > 0
    /\ QuoteCount(raw) >= QuoteCount(Flatten(toks)) + 2

\* the locals of the scanner under way before it reads raw[k]
StateBefore(k) ==
    IF scanner = "sanitizeInput"
    THEN sanitizeScan(sanitizeStart, raw, 1, k - 1)
    ELSE tokenizeScan(sanitizeStart, raw, 1, k - 1)

\* C10: when a scanner inside double quotes has read a backslash and the
\* character after it, it has appended that character alone if it is one of
\* $, backquote, ", \ and newline, and the backslash and the character if not.
C10_BackslashInDoubleQuotes ==
    \A k \in 1..(Len(raw) - 1) :
        LET b == StateBefore(k)
            c == raw[k + 1]
        IN  (pos = k + 2 /\ raw[k] = BS /\ b.inDoubleQuotes /\ ~b.escaped) =>
                /\ scan.args = b.args
                /\ scan.sb = b.sb \o (IF c \in {DOLLAR, BQ, DQ, BS, NL}
                                      THEN <<c>> ELSE <<BS, c>>)

\* the same of the tokenize scanner alone
C10_TokenizeAlone == scanner = "tokenize" => C10_BackslashInDoubleQuotes

RECURSIVE RefMode(_, _)
\* where the character s[k] stands by the quoting rules: q is "none", "single"
\* or "double", and esc says that the character before it is a backslash that
\* escapes
RefMode(s, k) ==
    IF k = 1 THEN [q |-> "none", esc |-> FALSE]
    ELSE LET m == RefMode(s, k - 1)
             c == s[k - 1]
         IN  IF m.q = "single"
             THEN (IF c = SQ THEN [m EXCEPT !.q = "none"] ELSE m)
             ELSE IF m.esc THEN [m EXCEPT !.esc = FALSE]
             ELSE IF c = BS THEN [m EXCEPT !.esc = TRUE]
             ELSE IF c = SQ /\ m.q = "none" THEN [m EXCEPT !.q = "single"]
             ELSE IF c = DQ
                  THEN [m EXCEPT !.q = IF m.q = "none" THEN "double" ELSE "none"]
                  ELSE m

\* s[k] stands outside quotes and is not escaped
Unquoted(s, k) == RefMode(s, k).q = "none" /\ ~RefMode(s, k).esc

\* C11: when a scanner has read a backslash that stands outside quotes and the
\* character after it, it has appended that character alone to the current
\* token, whatever it is: no token was ended, no quoted segment was opened
\* and the character escapes nothing.
C11_BackslashOutsideQuotes ==
    \A k \in 1..(Len(raw) - 1) :
        LET b == StateBefore(k)
        IN  (pos = k + 2 /\ raw[k] = BS /\ Unquoted(raw, k)) =>
                /\ scan.args = b.args
                /\ scan.sb = b.sb \o <<raw[k + 1]>>
                /\ ~scan.inSingleQuotes /\ ~scan.inDoubleQuotes
                /\ ~scan.escaped

\* C11 witness: a scanner returned the one token a a (with the space) from the
\* line a\ a.
C11_Witness ==
    /\ Returned
    /\ raw = <<"a", BS, SP, "a">>
    /\ toks = << <<"a", SP, "a">> >>

\* C12: when a scanner has read a character that stands inside single quotes,
\* it has appended the character unchanged to the current token, be it a
\* backslash, a double quote or a space, and escapes nothing; only the closing
\* single quote is not appended, and it ends the quoted segment.
C12_SingleQuotesLiteral ==
    \A k \in 1..Len(raw) :
        LET b == StateBefore(k)
        IN  (pos = k + 1 /\ RefMode(raw, k).q = "single") =>
                /\ scan.args = b.args
                /\ ~scan.escaped /\ ~scan.inDoubleQuotes
                /\ IF raw[k] = SQ
                   THEN scan.sb = b.sb /\ ~scan.inSingleQuotes
                   ELSE scan.sb = b.sb \o <<raw[k]>> /\ scan.inSingleQuotes

\* C12 witness: a scanner returned the one token made of a backslash and a
\* space from the line '\ ' (the two between single quotes).
C12_Witness ==
    /\ Returned
    /\ raw = <<SQ, BS, SP, SQ>>
    /\ toks = << <<BS, SP>> >>

\* s[k] is a quote character that opens or closes a quoted segment
ToggleAt(s, k) ==
    LET m == RefMode(s, k)
    IN  \/ s[k] = SQ /\ (m.q = "single" \/ (m.q = "none" /\ ~m.esc))
        \/ s[k] = DQ /\ ~m.esc /\ m.q \in {"none", "double"}

RECURSIVE Unquote(_, _)
\* the characters of s from s[k] on without the quotes that open or close
Unquote(s, k) ==
    IF k > Len(s) THEN <<>>
    ELSE (IF ToggleAt(s, k) THEN <<>> ELSE <<s[k]>>) \o Unquote(s, k + 1)

\* s has a space that stands outside quotes and is not escaped
HasDelimiter(s) == \E k \in 1..Len(s) : s[k] = SP /\ Unquoted(s, k)

\* C13: a scanner that reads a quote which opens or closes a quoted segment
\* ends no token and leaves the current token as it is; and a line with no
\* space outside quotes gives at most one token, which (when the line has no
\* backslash) is the text of its segments one after the other, the quotes
\* that open and close them left out.
C13_QuotesDoNotEndTokens ==
    /\ \A k \in 1..Len(raw) :
        LET b == StateBefore(k)
        IN  (pos = k + 1 /\ ToggleAt(raw, k)) =>
                scan.args = b.args /\ scan.sb = b.sb
    /\ (Returned /\ ~HasDelimiter(raw)) =>
        /\ Len(toks) <= 1
        /\ BS \notin Range(raw) => Flatten(toks) = Unquote(raw, 1)

\* C13 witness: a scanner returned the one token aa from the line 'a'a.
C13_Witness ==
    /\ Returned
    /\ raw = <<SQ, "a", SQ, "a">>
    /\ toks = << <<"a", "a">> >>

\* a is the beginning of b
IsPrefix(a, b) == Len(a) <= Len(b) /\ SubSeq(b, 1, Len(a)) = a

RECURSIVE IsSubsequence(_, _)
\* the elements of a occur in b in the order of a
IsSubsequence(a, b) ==
    IF Len(a) = 0 THEN TRUE
    ELSE IF Len(b) = 0 THEN FALSE
    ELSE IF a[1] = b[1] THEN IsSubsequence(Tail(a), Tail(b))
    ELSE IsSubsequence(a, Tail(b))

\* C14: a scanner that reads a space which stands outside quotes and is not
\* escaped ends the current token (and adds nothing when there is none); no
\* token of a scanner is ever empty, neither under way nor in the result;
\* the finished tokens are only ever added to at the end, and the characters
\* of the result are characters of the line in the line's order.
C14_SpacesDelimitNoEmptyTokens ==
    /\ \A k \in 1..Len(raw) :
        LET b == StateBefore(k)
        IN  pos = k + 1 =>
                /\ IsPrefix(b.args, scan.args)
                /\ (raw[k] = SP /\ Unquoted(raw, k)) =>
                    /\ scan.sb = <<>>
                    /\ scan.args = IF b.sb = <<>> THEN b.args
                                   ELSE Append(b.args, b.sb)
    /\ \A i \in 1..Len(scan.args) : scan.args[i] # <<>>
    /\ Returned =>
        /\ \A i \in 1..Len(toks) : toks[i] # <<>>
        /\ IsPrefix(scan.args, toks)
        /\ IsSubsequence(Flatten(toks), raw)

\* C14 witness: a scanner returned the two tokens a and $ from the line
\* "a  $" with two spaces in a row.
C14_Witness ==
    /\ Returned
    /\ raw = <<"a", SP, SP, DOLLAR>>
    /\ toks = << <<"a">>, <<DOLLAR>> >>

\* the scanner under way as a function of the line
Scanner(s) == IF scanner = "sanitizeInput" THEN sanitizeInput(s) ELSE tokenize(s)

\* the quotes of s are balanced and s does not end in an incomplete escape
Balanced(s) ==
    LET m == RefMode(s, Len(s) + 1) IN m.q = "none" /\ ~m.esc

\* some token of ts contains one of the characters cs
TokensContain(ts, cs) == \E i \in 1..Len(ts) : Range(ts[i]) \cap cs # {}

NamesOf(ed) ==
    IF ed = "part_005" THEN Range(builtinCMDs) \cup PathExecutables
    ELSE Range(BUILTIN_COMMANDS)

\* the candidates of a buffer: the names that start with it
Candidates(ed, buf) == {n \in NamesOf(ed) : IsPrefix(buf, n)}

\* the longest string that is a prefix of every name of the non-empty set S
LongestCommonPrefix(S) ==
    LET n == CHOOSE x \in S : TRUE
        common == {j \in 0..Len(n) :
                      \A m \in S : Len(m) >= j /\ SubSeq(m, 1, j) = SubSeq(n, 1, j)}
        k == CHOOSE j \in common : \A i \in common : i <= j
    IN  SubSeq(n, 1, k)

RECURSIVE Ascending(_)
\* the names of S in ascending order
Ascending(S) ==
    IF S = {} THEN <<>>
    ELSE LET least == CHOOSE x \in S : \A y \in S \ {x} : StrLess(x, y)
         IN  <<least>> \o Ascending(S \ {least})

\* this step is the editor ed handling the key k
Pressed(ed, k) == editor = ed /\ key' = k /\ nkeys' = nkeys + 1

\* C16: whenever the readInput of part_005 handles a Tab and no candidate
\* starts with the buffer as it is at that press, it rings the bell and
\* leaves the buffer unchanged.
C16_TabWithoutCandidates ==
    [][ (Pressed("part_005", TAB) /\ Candidates("part_005", input) = {}) =>
            (out' = <<BEL>> /\ input' = input) ]_vars

EarlierTabDrawsTheSpace ==
    [][ \A n \in NamesOf("main.go") :
            (Pressed("main.go", TAB) /\ Candidates("main.go", input) = {n}) =>
                /\ input' = n
                /\ out' = <<CR, ERASE>> \o OldPrompt \o n \o <<SP>> ]_vars

\* C18: whenever the readInput of part_005 handles a Tab, two or more
\* candidates start with the buffer and their longest common prefix is
\* longer than the buffer, the buffer becomes that prefix, and neither a
\* bell nor a line break (a listing) is written.
C18_TabExtendsToCommonPrefix ==
    [][ LET cands == Candidates("part_005", input)
        IN  ( /\ Pressed("part_005", TAB)
              /\ Cardinality(cands) >= 2
              /\ Len(LongestCommonPrefix(cands)) > Len(input) )
            => /\ input' = LongestCommonPrefix(cands)
               /\ BEL \notin Range(out')
               /\ CR \notin Range(out') /\ NL \notin Range(out') ]_vars

\* two or more candidates start with the buffer, and their longest common
\* prefix is the buffer
AtCommonPrefix(buf) ==
    LET cands == Candidates("part_005", buf)
    IN  Cardinality(cands) >= 2 /\ LongestCommonPrefix(cands) = buf

\* a listing of the candidates of the buffer: a fresh line, the candidates in
\* ascending order with one or two spaces between them, and on the next line
\* the prompt and the buffer
Listing(buf) ==
    {<<CR, NL>> \o JoinWith(Ascending(Candidates("part_005", buf)), sep)
               \o <<CR, NL>> \o <<"$", SP>> \o buf : sep \in {<<SP>>, <<SP, SP>>}}

\* C19: with a non-empty buffer that two or more candidates start with and
\* that is their longest common prefix, a Tab that follows another key only
\* rings the bell, and the Tab right after it writes the listing of the
\* candidates; neither changes the buffer.
C19_SecondTabLists ==
    [][ (Pressed("part_005", TAB) /\ input # <<>> /\ AtCommonPrefix(input)) =>
            /\ tabs = 0 => (out' = <<BEL>> /\ input' = input)
            /\ (tabs = 1 /\ out = <<BEL>>) =>
                   (out' \in Listing(input) /\ input' = input) ]_vars

\* C20: whenever a readInput handles a backspace, sent as code 127 or as
\* code 8, a non-empty buffer loses its last character and an empty buffer
\* stays empty.
C20_BackspaceEitherCode ==
    [][ \A ed \in {"part_005", "main.go"} :
            \A k \in {DEL, BSP} :
                Pressed(ed, k) =>
                    input' = IF Len(input) > 0
                             THEN SubSeq(input, 1, Len(input) - 1)
                             ELSE <<>> ]_vars

\* the same of the earlier readInput alone, and of code 127 alone
C20_EarlierReadInputAlone ==
    [][ \A k \in {DEL, BSP} :
            Pressed("main.go", k) =>
                input' = IF Len(input) > 0
                         THEN SubSeq(input, 1, Len(input) - 1)
                         ELSE <<>> ]_vars
C20_Code127Alone ==
    [][ \A ed \in {"part_005", "main.go"} :
            Pressed(ed, DEL) =>
                input' = IF Len(input) > 0
                         THEN SubSeq(input, 1, Len(input) - 1)
                         ELSE <<>> ]_vars

\* the scanner that the main of the editor ed hands the line to
ScannerOf(ed, s) == IF ed = "part_005" THEN sanitizeInput(s) ELSE tokenize(s)

RECURSIVE Trimmed(_)
\* s without its leading and trailing whitespace
Trimmed(s) ==
    IF Len(s) > 0 /\ s[1] \in {SP, TAB, NL, CR} THEN Trimmed(Tail(s))
    ELSE IF Len(s) > 0 /\ s[Len(s)] \in {SP, TAB, NL, CR}
         THEN Trimmed(SubSeq(s, 1, Len(s) - 1))
         ELSE s

\* C21: whenever a readInput handles Enter, it returns (the process goes on
\* to the scanner), and the tokens of the line it hands over are the tokens
\* of the buffer without its leading and trailing whitespace.
C21_EnterCommitsTrimmedBuffer ==
    [][ \A ed \in {"part_005", "main.go"} :
            \A k \in {CR, NL} :
                (Pressed(ed, k) /\ (ed = "main.go" => k = NL)) =>
                    /\ pc' = "parseCMD"
                    /\ ScannerOf(ed, input') = ScannerOf(ed, Trimmed(input)) ]_vars

\* the same of the earlier readInput alone
C21_EarlierReadInputAlone ==
    [][ Pressed("main.go", NL) =>
            /\ pc' = "parseCMD"
            /\ ScannerOf("main.go", input') = ScannerOf("main.go", Trimmed(input))
      ]_vars

CommittedLineRuns ==
    /\ editor = "part_005"
    /\ key \in {CR, NL}
    /\ pc = "prompt"
    /\ cmd.Name = echoW
    /\ writes # <<>>

\* the earlier readInput has no case for Ctrl-C: the byte joins the buffer
\* and the process goes on
C22_EarlierReadInputAlone ==
    [][ Pressed("main.go", ETX) =>
            /\ input' = Append(input, ETX)
            /\ proc' = "running" /\ pc' = "readInput" ]_vars

\* the text main prints for a name that is no command
NotFoundText(name) == name \o <<": command not found", NL>>

\* C23: when the line's command is neither a built-in nor on the search
\* path, the one thing written is "<name>: command not found", it goes to
\* the command's stdout sink, and the shell is back at the prompt.
C23_NotFoundToStdoutSink ==
    (/\ Running /\ pc = "prompt"
     /\ cmd.Name \notin {echoW, exitW, typeW, pwdW, cdW, <<>>}
     /\ ~LookPath(cmd.Name))
        => writes = <<Write(cmd.Stdout, NotFoundText(cmd.Name))>>

\* without a redirection of stdout the text goes to the terminal
C23_NotFoundOnTerminal ==
    (/\ Running /\ pc = "prompt"
     /\ cmd.Name \notin {echoW, exitW, typeW, pwdW, cdW, <<>>}
     /\ ~LookPath(cmd.Name)
     /\ cmd.Stdout = Tty)
        => writes = <<Write(Tty, NotFoundText(cmd.Name))>>

\* C24: what echo, type and pwd print goes to the command's stdout sink, a
\* file when the line redirects stdout, and echo prints its arguments joined
\* by single spaces and a newline.
C24_BuiltinOutputToStdoutSink ==
    (/\ Running /\ pc = "prompt"
     /\ cmd.Name \in {echoW, typeW, pwdW}
     /\ (cmd.Name = typeW => Len(cmd.Args) > 0))
        => /\ Len(writes) = 1
           /\ writes[1].to = cmd.Stdout
           /\ (cmd.Name = echoW => writes[1].text = JoinSp(cmd.Args) \o <<NL>>)

\* the same of echo alone
C24_EchoAlone ==
    (Running /\ pc = "prompt" /\ cmd.Name = echoW)
        => writes = <<Write(cmd.Stdout, JoinSp(cmd.Args) \o <<NL>>)>>

\* the integer an argument of exit stands for, if it stands for one
IntegerOf(a) ==
    CASE a = <<"7">> -> [integer |-> TRUE, N |-> 7]
      [] a = <<"1", "2">> -> [integer |-> TRUE, N |-> 12]
      [] a = <<"-", "1">> -> [integer |-> TRUE, N |-> 0 - 1]
      [] OTHER -> [integer |-> FALSE, N |-> 0]

\* C25: exit ends the process: with status 0 and no message when it has no
\* argument, with status N and no message when its first argument is the
\* integer N, and with status 0 after one message about the conversion when
\* its first argument is no integer.
C25_ExitStatus ==
    (proc = "exited" /\ cause = "exit") =>
        /\ cmd.Name = exitW
        /\ IF Len(cmd.Args) = 0
           THEN exitCode = 0 /\ writes = <<>>
           ELSE IF IntegerOf(cmd.Args[1]).integer
           THEN exitCode = IntegerOf(cmd.Args[1]).N /\ writes = <<>>
           ELSE /\ exitCode = 0
                /\ Len(writes) = 1
                /\ IsPrefix(<<"err convert exit code:">>, writes[1].text)

C25_Exits ==
    [][ (Running /\ pc = "dispatch" /\ cmd.Name = exitW) => proc' = "exited" ]_vars

\* exit 12 ended the process with status 12
C25_Witness ==
    /\ proc = "exited" /\ cause = "exit"
    /\ cmd.Args = << <<"1", "2">> >>
    /\ exitCode = 12

\* exit f reported the conversion and ended the process with status 0
C25_WitnessNotAnInteger ==
    /\ proc = "exited" /\ cause = "exit"
    /\ Len(cmd.Args) > 0 /\ cmd.Args[1] = fW
    /\ exitCode = 0 /\ Len(writes) = 1

\* the file system has the directories / and /g: path names one of them for
\* a process whose working directory is from
CanEnter(from, path) ==
    \/ path \in {<<"/">>, <<"/", "g">>}
    \/ from = <<"/">> /\ path = <<"g">>

\* C26: a cd to a path that cannot be entered leaves the working directory
\* as it was, reports "cd: <path>: No such file or directory" and nothing
\* else, and the shell goes on to the next prompt.
C26_FailedCdKeepsDirectory ==
    [][ (/\ Running /\ pc = "dispatch"
         /\ cmd.Name = cdW
         /\ Len(cmd.Args) > 0
         /\ cmd.Args[1] # <<"~">>
         /\ ~CanEnter(cwd, cmd.Args[1]))
            => /\ cwd' = cwd
               /\ Len(writes') = Len(writes) + 1
               /\ writes'[Len(writes')].text =
                      <<"cd: ">> \o cmd.Args[1] \o <<": No such file or directory", NL>>
               /\ proc' = "running"
               /\ pc' = "prompt" ]_vars

\* a cd g typed inside /g failed: the shell is at the prompt, still in /g
C26_Witness ==
    /\ Running /\ pc = "prompt"
    /\ cmd.Name = cdW /\ cmd.Args = <<gW>>
    /\ cwd = <<"/", "g">>
    /\ nlines = 2
    /\ Len(writes) = 1
    /\ writes[1].text = <<"cd: ", "g", ": No such file or directory", NL>>

\* the directories of the search path that hold an executable file called name
DirsWith(name) ==
    {i \in 1..Len(PathDirs) :
        \E k \in 1..Len(PathDirs[i].files) :
            PathDirs[i].files[k] = [name |-> name, x |-> TRUE]}

\* C27: a line that runs an external command runs one executable, the file
\* of that name in the first directory of the search path that has an
\* executable one; no later directory's file is run in its place.
C27_FirstDirectoryWins ==
    (/\ Running /\ pc = "prompt"
     /\ cmd.Name \notin {echoW, exitW, typeW, pwdW, cdW, <<>>}
     /\ DirsWith(cmd.Name) # {})
        => LET first == CHOOSE i \in DirsWith(cmd.Name) :
                            \A j \in DirsWith(cmd.Name) : i <= j
           IN  /\ Len(ran) = 1
               /\ ran[1].kind = "external"
               /\ ran[1].path = <<PathDirs[first].dir>> \o cmd.Name
               /\ \A j \in DirsWith(cmd.Name) :
                      j > first => ran[1].path # <<PathDirs[j].dir>> \o cmd.Name

\* ls ran from the second directory: the first has an ls without an execute
\* bit, the third an executable one
C27_Witness ==
    /\ Running /\ pc = "prompt"
    /\ cmd.Name = lsW
    /\ DirsWith(lsW) = {2, 3}
    /\ Len(ran) = 1
    /\ ran[1].path = <<"/usr/bin/", "l", "s">>

\* what a name is to the shell: one of the five built-ins, else a program of
\* the search path, else nothing
KindOf(name) ==
    IF name \in {echoW, exitW, typeW, pwdW, cdW} THEN "builtin"
    ELSE IF DirsWith(name) # {} THEN "external"
    ELSE "none"

\* the file of the first directory of the search path with an executable name
FirstPath(name) ==
    LET first == CHOOSE i \in DirsWith(name) : \A j \in DirsWith(name) : i <= j
    IN  <<PathDirs[first].dir>> \o name

\* main has dispatched the command of the line
Dispatched ==
    /\ cmd.Name # <<>>
    /\ (Running /\ pc = "prompt") \/ (proc = "exited" /\ cause = "exit")

C28_WitnessBuiltinFirst ==
    /\ Dispatched
    /\ cmd.Name = typeW /\ cmd.Args = <<echoW>>
    /\ DirsWith(echoW) # {}
    /\ writes[1].text = <<"e", "c", "h", "o", " ", "is a shell builtin", "\n">>

\* what a key's handler wrote is a listing: it opens a fresh line and is a
\* Tab's, not Enter's
IsListing(k, o) == k = TAB /\ Len(o) > 2 /\ o[1] = CR /\ o[2] = NL

\* C29: a Tab prints the candidate list only when the key before it was a
\* Tab that left the buffer as it was (it rang the bell or listed); after a
\* character or a backspace the next Tab lists nothing.
C29_ListingOnlyAfterTab ==
    [][ Pressed("part_005", TAB) =>
            /\ IsListing(key', out') =>
                   /\ key = TAB /\ tabs >= 1
                   /\ out = <<BEL>> \/ IsListing(key, out)
                   /\ input' = input
                   /\ out' \in Listing(input)
            /\ (key # TAB) => ~IsListing(key', out')
            /\ (key # TAB) => (~wasTab /\ autocompleteNames = <<>>) ]_vars

\* the second of two Tabs in a row listed echo and exit
C29_Witness ==
    /\ editor = "part_005"
    /\ key = TAB /\ tabs = 2
    /\ input = <<"e">>
    /\ IsListing(key, out)
    /\ out \in Listing(input)

\* a Tab five keys in, right after another key, with the buffer e: the bell
C29_WitnessFirstPress ==
    /\ editor = "part_005"
    /\ key = TAB /\ tabs = 1 /\ nkeys = 5
    /\ input = <<"e">>
    /\ out = <<BEL>>

\* C30: a Tab on the empty buffer gets no candidates from autocomplete,
\* leaves the buffer empty and lists nothing: it only rings the bell.
C30_TabOnEmptyBuffer ==
    [][ (Pressed("part_005", TAB) /\ input = <<>>) =>
            /\ autocomplete(input) = [names |-> <<>>, found |-> FALSE]
            /\ autocompleteNames' = <<>>
            /\ input' = <<>>
            /\ out' = <<BEL>>
            /\ wasTab' = FALSE ]_vars

\* two Tabs in a row on the empty buffer, and the second one only rang the bell
C30_Witness ==
    /\ editor = "part_005"
    /\ key = TAB /\ tabs = 2
    /\ input = <<>>
    /\ autocompleteNames = <<>>
    /\ out = <<BEL>>

\* the earlier readInput completes the empty buffer to the first built-in
C30_EarlierReadInputAlone ==
    [][ (Pressed("main.go", TAB) /\ input = <<>>) => input' = echoW ]_vars

\* the names of the files with an execute bit in the directories of the
\* search path
ExecutableNames ==
    UNION {{PathDirs[i].files[k].name :
               k \in {j \in 1..Len(PathDirs[i].files) : PathDirs[i].files[j].x}} :
           i \in 1..Len(PathDirs)}

OpenAtEnd(s) == RefMode(s, Len(s) + 1).q

\* where the single quote that s leaves open stands
OpeningQuote(s) ==
    CHOOSE k \in 1..Len(s) :
        /\ s[k] = SQ /\ RefMode(s, k).q = "none" /\ ~RefMode(s, k).esc
        /\ \A j \in (k + 1)..Len(s) : RefMode(s, j).q = "single"

IsSuffix(a, b) == Len(a) <= Len(b) /\ SubSeq(b, Len(b) - Len(a) + 1, Len(b)) = a

\* C32: a scanner reads every line to its end and returns tokens: it is
\* never stuck before it returns.  When the line leaves a quote open, what
\* the scanner has accumulated at the end of the line, if anything, is the
\* last token, and after an open single quote that is at least everything
\* typed after the quote.
C32_ScannerTotalUnterminatedQuote ==
    /\ ~Returned => ENABLED NextTok
    /\ (Returned /\ OpenAtEnd(raw) # "none") =>
           /\ scan.inSingleQuotes \/ scan.inDoubleQuotes
           /\ toks = IF Len(scan.sb) > 0 THEN Append(scan.args, scan.sb) ELSE scan.args
           /\ (OpenAtEnd(raw) = "single" /\ OpeningQuote(raw) < Len(raw)) =>
                  /\ Len(toks) > 0
                  /\ IsSuffix(SubSeq(raw, OpeningQuote(raw) + 1, Len(raw)),
                              toks[Len(toks)])

\* sanitizeInput returned a and a space as the one token of the line 'a
\* followed by a space
C32_Witness ==
    /\ Returned
    /\ scanner = "sanitizeInput"
    /\ raw = <<SQ, "a", SP>>
    /\ OpenAtEnd(raw) = "single"
    /\ toks = << <<"a", SP>> >>

\* tokenize returned the text after an open double quote as the last token
C32_WitnessTokenize ==
    /\ Returned
    /\ scanner = "tokenize"
    /\ raw = <<"a", SP, DQ, "a">>
    /\ OpenAtEnd(raw) = "double"
    /\ toks = << <<"a">>, <<"a">> >>

RECURSIVE RedirTargets(_)
\* the tokens that a left-to-right pass takes as the targets of the operators
RedirTargets(ts) ==
    IF Len(ts) < 2 THEN {}
    ELSE IF IsOperator(ts[1]) THEN {ts[2]} \cup RedirTargets(Tail(Tail(ts)))
    ELSE RedirTargets(Tail(ts))

\* the targets of the line that cannot be opened: in / the name g is a directory
FailingTargets == {t \in RedirTargets(LineArgs) : cwd = <<"/">> /\ t = <<"g">>}

\* main is done with what parseCMD returned for the line
Handled == input # <<>> /\ pc # "parseCMD"

\* the line was given up: the failure of the open is reported, nothing has
\* run, no file of the line is open and main is at the prompt
Aborted ==
    /\ Running /\ pc = "prompt"
    /\ ran = <<>>
    /\ Len(writes) = 1 /\ IsPrefix(<<"open ">>, writes[1].text)
    /\ \A k \in 1..Len(files) : ~files[k].open

\* C33: a line with a redirection target that cannot be opened is given up:
\* the reason is reported, no command runs, every file opened for another
\* redirection of the line is closed and the shell prompts again.
C33_FailedOpenAbortsLine ==
    (Handled /\ ~MissingFilename(LineArgs) /\ FailingTargets # {}) => Aborted

\* the same of the lines whose first redirection is the one that fails
C33_FirstRedirectionFails ==
    (/\ Handled
     /\ \E i \in OpPositions(LineArgs) :
            /\ \A j \in OpPositions(LineArgs) : i <= j
            /\ i < Len(LineArgs)
            /\ cwd = <<"/">> /\ LineArgs[i + 1] = <<"g">>)
        => Aborted

\* C34: a Tab handled by either readInput leaves the buffer as it was or
\* adds characters at its end: the buffer before the Tab is a prefix of the
\* buffer after it.
C34_TabOnlyAppends ==
    [][ \A ed \in {"part_005", "main.go"} :
            Pressed(ed, TAB) =>
                /\ Len(input') >= Len(input)
                /\ \A k \in 1..Len(input) : input'[k] = input[k] ]_vars

\* a Tab grew the buffer p to pwd, the common prefix of pwd and pwdx
C34_Witness ==
    /\ editor = "part_005"
    /\ key = TAB /\ tabs = 1 /\ nkeys = 2
    /\ input = <<"p", "w", "d">>
    /\ out = <<"w", "d">>

\* a Tab of the earlier readInput grew the buffer c to cd
C34_WitnessEarlier ==
    /\ editor = "main.go"
    /\ key = TAB /\ nkeys = 2
    /\ input = <<"c", "d">>

\* how often the character c occurs in cs
Occurrences(c, cs) == Cardinality({i \in 1..Len(cs) : cs[i] = c})

\* C35: a scanner only leaves characters out.  At every point of its loop
\* the characters it holds, tokens in order, are a subsequence of the
\* characters it has read, and so are the characters of the returned tokens
\* of the whole line; the only characters left out are spaces, quotes and
\* backslashes.
C35_TokensAreSubsequenceOfLine ==
    /\ pos <= Len(raw) + 1 =>
           IsSubsequence(TextOf(scan), SubSeq(raw, 1, pos - 1))
    /\ Returned =>
           /\ IsSubsequence(Flatten(toks), raw)
           /\ \A c \in TokChars :
                  Occurrences(c, Flatten(toks)) <= Occurrences(c, raw)
           /\ \A c \in TokChars \ {SP, SQ, DQ, BS} :
                  Occurrences(c, Flatten(toks)) = Occurrences(c, raw)

\* a returned line that lost its quotes and a backslash and kept the rest in
\* order
C35_Witness ==
    /\ Returned
    /\ Len(raw) >= 4
    /\ Len(toks) = 1
    /\ Len(Flatten(toks)) < Len(raw)
    /\ BS \in Range(raw) /\ BS \notin Range(Flatten(toks))
    /\ DQ \in Range(raw) /\ DQ \notin Range(Flatten(toks))
    /\ IsSubsequence(Flatten(toks), raw)

\* the call of readInput is over: it has returned or the process has ended
ReadInputOver == pc # "readInput" \/ proc # "running"

\* all the keys of the run have been read
KeysUsedUp == nkeys = MaxKeys

\* C36: every call of readInput comes to an end, also when a read fails and
\* goes on failing (the keys of a run are MaxKeys at most, so a call that
\* has read them all counts as one that goes on reading), and a read that
\* failed is no keystroke: it leaves the buffer of a readInput that goes on
\* as it was and commits nothing.
C36_ReadInputAlwaysEnds ==
    /\ <>(ReadInputOver \/ KeysUsedUp)
    /\ [][ (key' = EOF /\ key # EOF) =>
               /\ nkeys' = nkeys
               /\ pc' = "readInput" => input' = input
               /\ pc' # "parseCMD" /\ cmd' = cmd /\ ran' = ran ]_vars

\* the part of C36 about the buffer
C36_FailedReadKeepsBuffer ==
    [][ (key' = EOF /\ key # EOF) =>
            /\ tabs' = tabs /\ wasTab' = wasTab
            /\ nkeys' = nkeys
            /\ (pc' = "readInput" => input' = input)
            /\ pc' # "parseCMD" /\ cmd' = cmd /\ ran' = ran ]_vars

\* the earlier readInput returns when a read fails
C36_EarlierReadInputAlone ==
    /\ (editor = "main.go") => <>(ReadInputOver \/ KeysUsedUp)
    /\ [][ (editor = "main.go" /\ key' = EOF) => pc' = "prompt" ]_vars

\* the readInput of part_005 comes to an end unless a read fails
C36_EndsUnlessReadFails ==
    (editor = "part_005") => <>(ReadInputOver \/ KeysUsedUp \/ key = EOF)

====
